---- MODULE Spec2Model ----
(***************************************************************************)
(* The Xcode project-manifest scripts of FitnessCoach:                     *)
(*   add_new_components_to_xcode.py  (add_files_to_xcode_project)          *)
(*   add_quick_components.py         (module body)                         *)
(*   add_files_to_xcode.py           (main, print-only generator)          *)
(*                                                                         *)
(* Text is a sequence of tokens.  A token stands for one character or for  *)
(* a run of characters that no search of the scripts can split; every      *)
(* literal the scripts search for is two tokens long, its last token being *)
(* its last character, so that Python's find / replace / slicing (also the *)
(* slice at -1) act on it as they do on the characters.  Positions are     *)
(* 0-based, as in Python.                                                  *)
(***************************************************************************)
EXTENDS Integers, Sequences, FiniteSets, TLC

VARIABLES
    prog,                 \* which script this run of the system invokes
    content,              \* project.pbxproj as it is on disk
    original,             \* project.pbxproj before the first invocation
    prev,                 \* project.pbxproj when the last invocation read it
    files_to_add,         \* add_new: the (file_path, group_name) list
    calls,                \* invocations made so far
    file_refs_section,    \* add_new/quick: staged file references, last invocation
    build_files_section,  \* add_new/quick: staged build files, last invocation
    group_children,       \* add_new: group_name -> staged group lines
    sources_build_phase,  \* add_new/quick: staged build-phase lines
    added,                \* add_new/quick: the entries reported "Adding:"/"Added"
    wrote,                \* the last invocation reached f.write(content)
    model_files,          \* main: what glob returned
    file_refs,            \* main: generated file reference records
    group_lines           \* main: the printed group entries

vars == <<prog, content, original, prev, files_to_add, calls, file_refs_section,
          build_files_section, group_children, sources_build_phase, added,
          wrote, model_files, file_refs, group_lines>>

-----------------------------------------------------------------------------
(* Bounds *)

MaxEntries == 2
MaxCalls == 2
MaxFiles == 2

-----------------------------------------------------------------------------
(* Python string primitives on token sequences *)

Min(S) == CHOOSE x \in S : \A y \in S : x <= y

MatchAt(t, pat, i) ==
    /\ i >= 0
    /\ i + Len(pat) <= Len(t)
    /\ \A k \in 1..Len(pat) : t[i + k] = pat[k]

\* t.find(pat, start): lowest 0-based index >= start, or -1
Find(t, pat, start) ==
    LET hits == { i \in start..(Len(t) - Len(pat)) : MatchAt(t, pat, i) }
    IN  IF hits = {} THEN -1 ELSE Min(hits)

\* pat in t
Contains(t, pat) == Find(t, pat, 0) # -1

\* the index a slice bound n denotes in a text of length len
SliceIndex(n, len) ==
    IF n < 0 THEN (IF len + n < 0 THEN 0 ELSE len + n)
    ELSE IF n > len THEN len ELSE n

\* t[:n]
SliceTo(t, n) == SubSeq(t, 1, SliceIndex(n, Len(t)))

\* t[n:]
SliceFrom(t, n) == SubSeq(t, SliceIndex(n, Len(t)) + 1, Len(t))

\* sep.join(list)
RECURSIVE Join(_, _)
Join(list, sep) ==
    IF list = <<>> THEN <<>>
    ELSE IF Len(list) = 1 THEN list[1]
    ELSE list[1] \o sep \o Join(Tail(list), sep)

\* t.replace(old, new): every non-overlapping occurrence, left to right
RECURSIVE Replace(_, _, _)
Replace(t, old, new) ==
    LET p == Find(t, old, 0)
    IN  IF p = -1 THEN t
        ELSE SliceTo(t, p) \o new \o Replace(SliceFrom(t, p + Len(old)), old, new)

\* number of non-overlapping occurrences of pat in t
RECURSIVE Count(_, _)
Count(t, pat) ==
    LET p == Find(t, pat, 0)
    IN  IF p = -1 THEN 0 ELSE 1 + Count(SliceFrom(t, p + Len(pat)), pat)

\* os.path.basename(path): what follows the last "/"
RECURSIVE Basename(_)
Basename(path) ==
    IF \E i \in 1..Len(path) : path[i] = "/"
    THEN Basename(SliceFrom(path, Min({ i \in 1..Len(path) : path[i] = "/" })))
    ELSE path

Whitespace == {"\t\t", "\t\t\t\t", "\n", " "}

\* s.split()[0]: the first whitespace-delimited word
FirstWord(s) == s[Min({ i \in 1..Len(s) : s[i] \notin Whitespace })]

NL == <<"\n">>

-----------------------------------------------------------------------------
(* The literals the scripts search for *)

file_ref_marker == <<"/* End PBXFileReference section *", "/">>
build_file_marker == <<"/* End PBXBuildFile section *", "/">>
sources_marker == <<"/* Sources */", ",">>
files_open == <<"files = ", "(">>
end_bracket == <<")", ";">>

-----------------------------------------------------------------------------
(* generate_xcode_uuid: 24 upper-case hex characters of a random uuid4.    *)
(* The random source is a stream of draws; a seed names one stream.        *)

UuidPool == << "3F2A9C1D7B6E4A10B2C4D6E8", "9D8C7B6A5F4E4D3C8B1A0F9E",
               "0A1B2C3D4E5F46A7B8C9D0E1", "5E6F7A8B9C0D41E2A3F4B5C6",
               "7C6B5A4F3E2D41C0B9A8F7E6", "1B3D5F7A9C0E42A4B6C8DAEC" >>

Seeds == { [start |-> 0, stride |-> 1],      \* draws all different
           [start |-> 0, stride |-> 0] }     \* the same draw every time

\* the k-th draw (k = 0, 1, ...) of the stream of seed
generate_xcode_uuid(seed, k) ==
    UuidPool[((seed.start + seed.stride * k) % Len(UuidPool)) + 1]

\* add_quick_components.py's fixed identities
quick_file_uuid == "A1B2C3D4E5F67890ABCDEF12"
quick_build_uuid == "F1E2D3C4B5A69780FEDCBA21"

-----------------------------------------------------------------------------
(* The record fragments *)

FileRef(file_uuid, filename) ==
    <<"\t\t", file_uuid, " /* ">> \o filename
      \o <<" */ = {isa = PBXFileReference; lastKnownFileType = sourcecod", "e", ".swift",
           "; path = ">>
      \o filename \o <<"; sourceTree = <group>; }", ";">>

BuildFile(build_uuid, filename, file_uuid) ==
    <<"\t\t", build_uuid, " /* ">> \o filename
      \o <<" in Sources */ = {isa = PBXBuildFile; fileRef = ", file_uuid, " /* ">>
      \o filename \o <<" */; }", ";">>

GroupLine(file_uuid, filename) ==
    <<"\t\t\t\t", file_uuid, " /* ">> \o filename \o <<" */", ",">>

SourceLine(build_uuid, filename) ==
    <<"\t\t\t\t", build_uuid, " /* ">> \o filename \o <<" in Sources */", ",">>

-----------------------------------------------------------------------------
(* Inputs: the files on disk, the entry lists, the manifests               *)

Path(dir, name) == <<dir, "/">> \o name \o <<".swift">>

ThemedPath == Path("Core", <<"q">>)
SearchPath == Path("Input", <<"q">>)          \* same display name as ThemedPath
ChartPath == Path("Charts", <<"p", "q">>)     \* display name contains "q.swift"
MissingPath == Path("Workout", <<"r">>)       \* not on disk

\* os.path.exists
Exists(file_path) == file_path \in {ThemedPath, SearchPath, ChartPath}

Entries == { <<ThemedPath, "Components">>, <<SearchPath, "Dashboard">>,
             <<ChartPath, "Components">>, <<MissingPath, "Components">> }

EntryLists == UNION { [1..n -> Entries] : n \in 0..MaxEntries }

\* the opening of the named group's children list
GroupOpen(group_name) ==
    <<CASE group_name = "Components" -> "/* Components */ = {isa = PBXGroup; children = "
        [] group_name = "Dashboard" -> "/* Dashboard */ = {isa = PBXGroup; children = "
        [] OTHER -> "/* */ = {isa = PBXGroup; children = ",
      "(">>

\* a file reference record already in the manifest
OldRecord == FileRef(UuidPool[1], Basename(ChartPath)) \o NL
\* a build file record already in the manifest, under a fixed identity of
\* add_quick_components.py
OldBuild == BuildFile(quick_file_uuid, <<"s", ".swift">>, UuidPool[2]) \o NL

BuildFileSections ==
    { <<>>, OldBuild \o build_file_marker \o NL,
      build_file_marker \o NL \o build_file_marker \o NL }
FileRefSections ==
    { <<>>, file_ref_marker \o NL, OldRecord \o file_ref_marker \o NL }
GroupSections ==
    { <<>>, GroupOpen("Components") \o NL
              \o end_bracket \o NL }
TargetSections ==
    { <<>>, <<"buildPhases = ", "(">> \o NL \o <<"\t\t\t\t", UuidPool[3]>>
              \o sources_marker \o NL \o end_bracket \o NL }
ResourcesPhase ==
    <<"/* Resources */ = {isa = PBXResourcesBuildPhase; ">> \o files_open
      \o NL \o end_bracket \o NL
SourcesHeader == <<"/* Sources */ = {isa = PBXSourcesBuildPhase; ">>
SourcesPhase == SourcesHeader \o files_open \o NL \o end_bracket \o NL
\* the build phase sections, in the manifest's order; the last one lacks its
\* closing (a truncated manifest)
PhaseSections ==
    { <<>>, SourcesPhase, ResourcesPhase \o SourcesPhase,
      SourcesHeader \o files_open \o NL }
\* the file reference section, where it is and where it is the end of the text
Layouts ==
    { [refs |-> f, tail |-> <<>>] : f \in FileRefSections }
      \cup { [refs |-> <<>>, tail |-> file_ref_marker] }

Manifests ==
    { b \o l.refs \o g \o t \o p \o l.tail :
        b \in BuildFileSections, l \in Layouts, g \in GroupSections,
        t \in TargetSections, p \in PhaseSections }

ModelNames == { <<"m">>, <<"a", "m">>, <<"z", "m">> }
ModelPaths == { Path("Models", n) : n \in ModelNames }
GlobResults == { S \in SUBSET ModelPaths : Cardinality(S) <= MaxFiles }

EmptyMap == [g \in {} |-> <<>>]

-----------------------------------------------------------------------------
(* add_new_components_to_xcode.py: add_files_to_xcode_project              *)

\* the check left out: nothing is ever taken to be in the project
AlreadyInProjectNever(filename, text) == FALSE

\* "Check if file already in project"
AlreadyInProject(filename, text) == Contains(text, filename)

NoStage == [refs |-> <<>>, builds |-> <<>>, groups |-> EmptyMap,
            sources |-> <<>>, added |-> <<>>, k |-> 0]

\* group_children after appending line under group_name
Track(groups, group_name, line) ==
    [g \in DOMAIN groups \cup {group_name} |->
        IF g = group_name
        THEN (IF g \in DOMAIN groups THEN groups[g] ELSE <<>>) \o <<line>>
        ELSE groups[g]]

\* one iteration of the loop over files_to_add; st.k counts the draws made
StageEntry(st, entry, text, seed) ==
    LET file_path == entry[1]
        group_name == entry[2]
        filename == Basename(file_path)
        file_uuid == generate_xcode_uuid(seed, st.k)
        build_uuid == generate_xcode_uuid(seed, st.k + 1)
    IN  IF ~Exists(file_path) THEN st
        ELSE IF AlreadyInProject(filename, text) THEN [st EXCEPT !.k = @ + 2]
        ELSE [refs |-> Append(st.refs, FileRef(file_uuid, filename)),
              builds |-> Append(st.builds, BuildFile(build_uuid, filename, file_uuid)),
              groups |-> Track(st.groups, group_name, GroupLine(file_uuid, filename)),
              sources |-> Append(st.sources, SourceLine(build_uuid, filename)),
              added |-> Append(st.added, [filename |-> filename, file_uuid |-> file_uuid,
                                          build_uuid |-> build_uuid, group |-> group_name]),
              k |-> st.k + 2]

\* the loop over files_to_add
RECURSIVE Stage(_, _, _, _)
Stage(list, text, seed, st) ==
    IF list = <<>> THEN st
    ELSE Stage(Tail(list), text, seed, StageEntry(st, Head(list), text, seed))

\* an off-by-one splice: content[:pos] + block + content[pos+1:]
SpliceOver(text, pos, block) == SliceTo(text, pos) \o block \o SliceFrom(text, pos + 1)

\* content[:pos] + block + content[pos:]
Splice(text, pos, block) == SliceTo(text, pos) \o block \o SliceFrom(text, pos)

\* "Insert file references" / "Insert build files"
InsertBeforeMarker(text, marker, section) ==
    IF Contains(text, marker)
    THEN Splice(text, Find(text, marker, 0), Join(section, NL) \o NL)
    ELSE text

\* "Insert into sources build phase"; block is what is spliced in
InsertIntoSources(text, block) ==
    IF Contains(text, sources_marker)
    THEN LET sources_pos == Find(text, sources_marker, 0)
             files_pos == Find(text, files_open, sources_pos)
         IN  IF files_pos # -1
             THEN Splice(text, Find(text, end_bracket, files_pos), block)
             ELSE text
    ELSE text

\* text with the lines staged for group_name spliced before the closing of its list
RECURSIVE InsertIntoGroups(_, _, _)
InsertIntoGroups(text, groups, names) ==
    IF names = {} THEN text
    ELSE LET g == CHOOSE x \in names : TRUE
             open_pos == Find(text, GroupOpen(g), 0)
             close_pos == IF open_pos = -1 THEN -1 ELSE Find(text, end_bracket, open_pos)
             here == IF close_pos = -1 THEN text
                     ELSE Splice(text, close_pos, Join(groups[g], NL) \o NL)
         IN  InsertIntoGroups(here, groups, names \ {g})

\* a patcher that also writes the group entries into the manifest
PatchedWithGroups(text, st) ==
    InsertIntoGroups(
        InsertIntoSources(
            InsertBeforeMarker(
                InsertBeforeMarker(text, file_ref_marker, st.refs),
                build_file_marker, st.builds),
            Join(st.sources, NL) \o NL),
        st.groups, DOMAIN st.groups)

\* the text add_files_to_xcode_project writes back
Patched(text, st) ==
    InsertIntoSources(
        InsertBeforeMarker(
            InsertBeforeMarker(text, file_ref_marker, st.refs),
            build_file_marker, st.builds),
        Join(st.sources, NL) \o NL)

AddNewComponents ==
    /\ prog = "add_new"
    /\ calls < MaxCalls
    /\ \E seed \in Seeds :
         LET st == Stage(files_to_add, content, seed, NoStage)
         IN  /\ file_refs_section' = st.refs
             /\ build_files_section' = st.builds
             /\ group_children' = st.groups
             /\ sources_build_phase' = st.sources
             /\ added' = st.added
             /\ IF st.refs = <<>>
                THEN /\ content' = content      \* "No new files to add"
                     /\ wrote' = FALSE
                ELSE /\ content' = Patched(content, st)
                     /\ wrote' = TRUE
    /\ prev' = content
    /\ calls' = calls + 1
    /\ UNCHANGED <<prog, original, files_to_add, model_files, file_refs, group_lines>>

-----------------------------------------------------------------------------
(* add_quick_components.py                                                 *)

QuickName == <<"Q", ".swift">>

\* the text add_quick_components.py writes back
QuickPatched(text) ==
    LET file_ref == FileRef(quick_file_uuid, QuickName)
        build_file == BuildFile(quick_build_uuid, QuickName, quick_file_uuid)
        source_line == SourceLine(quick_build_uuid, QuickName)
        c1 == Replace(text, file_ref_marker, file_ref \o NL \o file_ref_marker)
        c2 == Replace(c1, build_file_marker, build_file \o NL \o build_file_marker)
        sources_pos == Find(c2, sources_marker, 0)
        files_pos == Find(c2, files_open, sources_pos)
    IN  IF sources_pos # -1 /\ files_pos # -1
        THEN Splice(c2, Find(c2, end_bracket, files_pos), source_line \o NL)
        ELSE c2

AddQuickComponents ==
    /\ prog = "quick"
    /\ calls < MaxCalls
    /\ IF Contains(content, QuickName)
       THEN /\ content' = content               \* "already in project", exit(0)
            /\ wrote' = FALSE
            /\ file_refs_section' = <<>>
            /\ build_files_section' = <<>>
            /\ sources_build_phase' = <<>>
            /\ added' = <<>>
       ELSE /\ content' = QuickPatched(content)
            /\ wrote' = TRUE
            /\ file_refs_section' = <<FileRef(quick_file_uuid, QuickName)>>
            /\ build_files_section' =
                   <<BuildFile(quick_build_uuid, QuickName, quick_file_uuid)>>
            /\ sources_build_phase' = <<SourceLine(quick_build_uuid, QuickName)>>
            /\ added' = <<[filename |-> QuickName, file_uuid |-> quick_file_uuid,
                           build_uuid |-> quick_build_uuid, group |-> ""]>>
    /\ prev' = content
    /\ calls' = calls + 1
    /\ UNCHANGED <<prog, original, files_to_add, group_children, model_files,
                   file_refs, group_lines>>

-----------------------------------------------------------------------------
(* add_files_to_xcode.py: main                                             *)

\* code-point order of the characters a token starts with
Rank(tok) ==
    CASE tok = ".swift" -> 0
      [] tok = "/" -> 1
      [] tok = "Models" -> 2
      [] tok = "a" -> 3
      [] tok = "m" -> 4
      [] tok = "z" -> 5

\* a < b, as Python orders strings
RECURSIVE StrLess(_, _)
StrLess(a, b) ==
    IF b = <<>> THEN FALSE
    ELSE IF a = <<>> THEN TRUE
    ELSE IF Head(a) = Head(b) THEN StrLess(Tail(a), Tail(b))
    ELSE Rank(Head(a)) < Rank(Head(b))

\* sorted(model_files)
RECURSIVE Sorted(_)
Sorted(S) ==
    IF S = {} THEN <<>>
    ELSE LET least == CHOOSE x \in S : \A y \in S \ {x} : StrLess(x, y)
         IN  <<least>> \o Sorted(S \ {least})

\* main's file reference record (the path is quoted)
MainFileRef(file_uuid, filename) ==
    <<"\t\t", file_uuid, " /* ">> \o filename
      \o <<" */ = {isa = PBXFileReference; lastKnownFileType = sourcecod", "e", ".swift",
           "; path = \"">>
      \o filename \o <<"\"; sourceTree = <group>; }", ";">>

\* file_refs of main for the sorted paths
MainFileRefs(paths, seed) ==
    [i \in 1..Len(paths) |->
        MainFileRef(generate_xcode_uuid(seed, 2 * (i - 1)), Basename(paths[i]))]

\* [ref for ref in file_refs if filename in ref][0].split()[0]
LookupUuid(refs, filename) ==
    FirstWord(refs[Min({ j \in 1..Len(refs) : Contains(refs[j], filename) })])

\* the group entries main prints
MainGroupLines(paths, refs) ==
    [i \in 1..Len(paths) |->
        GroupLine(LookupUuid(refs, Basename(paths[i])), Basename(paths[i]))]

Main ==
    /\ prog = "main"
    /\ calls < MaxCalls
    /\ \E seed \in Seeds :
         LET paths == Sorted(model_files)
             refs == MainFileRefs(paths, seed)
         IN  /\ file_refs' = refs
             /\ group_lines' = MainGroupLines(paths, refs)
    /\ calls' = calls + 1
    /\ UNCHANGED <<prog, content, original, prev, files_to_add, file_refs_section,
                   build_files_section, group_children, sources_build_phase, added,
                   wrote, model_files>>

-----------------------------------------------------------------------------

Init ==
    /\ prog \in {"add_new", "quick", "main"}
    /\ content \in (IF prog = "main" THEN {<<>>} ELSE Manifests)
    /\ original = content
    /\ prev = content
    /\ files_to_add \in (IF prog = "add_new" THEN EntryLists ELSE {<<>>})
    /\ model_files \in (IF prog = "main" THEN GlobResults ELSE {{}})
    /\ calls = 0
    /\ file_refs_section = <<>>
    /\ build_files_section = <<>>
    /\ group_children = EmptyMap
    /\ sources_build_phase = <<>>
    /\ added = <<>>
    /\ wrote = FALSE
    /\ file_refs = <<>>
    /\ group_lines = <<>>

Next == AddNewComponents \/ AddQuickComponents \/ Main

Spec == Init /\ [][Next]_vars

InitQuick == Init /\ prog = "quick"

\* add_quick_components.py alone
SpecQuick == InitQuick /\ [][AddQuickComponents]_vars

-----------------------------------------------------------------------------
(* Vocabulary of the properties *)

\* a registration script has been invoked
Registering == prog \in {"add_new", "quick"} /\ calls >= 1

\* a staged section as it is spliced: '\n'.join(section) + '\n'
Block(section) == Join(section, NL) \o NL

\* the identities minted by the last invocation, in minting order
RECURSIVE Minted(_)
Minted(list) ==
    IF list = <<>> THEN <<>>
    ELSE <<Head(list).file_uuid, Head(list).build_uuid>> \o Minted(Tail(list))

\* the fragments the last invocation staged for the manifest
StagedFragments ==
    { file_refs_section[i] : i \in 1..Len(file_refs_section) }
      \cup { build_files_section[i] : i \in 1..Len(build_files_section) }
      \cup { sources_build_phase[i] : i \in 1..Len(sources_build_phase) }

\* text with every fragment of frags, and the newline after it, deleted
RECURSIVE Strip(_, _)
Strip(text, frags) ==
    IF text = <<>> THEN <<>>
    ELSE LET here == { f \in frags : MatchAt(text, f \o NL, 0) }
         IN  IF here # {}
             THEN Strip(SliceFrom(text, Len(CHOOSE f \in here : TRUE) + 1), frags)
             ELSE <<Head(text)>> \o Strip(Tail(text), frags)

\* all the group lines staged by the last invocation
StagedGroupLineCount ==
    LET RECURSIVE Sum(_)
        Sum(S) == IF S = {} THEN 0
                  ELSE LET g == CHOOSE x \in S : TRUE
                       IN  Len(group_children[g]) + Sum(S \ {g})
    IN  Sum(DOMAIN group_children)

-----------------------------------------------------------------------------
C2_AbortsOnMissingMarker ==
    (Registering /\ (~Contains(prev, file_ref_marker) \/ ~Contains(prev, build_file_marker)))
        => (content = prev /\ ~wrote)

(* C3: of two entries of one invocation with the same display name, not in *)
(* the manifest, the first is registered and the second skipped: exactly   *)
(* one set of fragments is staged for the name.                            *)
C3_SecondSameNameSkipped ==
    (prog = "add_new" /\ calls >= 1) =>
        \A i, j \in 1..Len(files_to_add) :
            ( /\ i < j
              /\ Exists(files_to_add[i][1]) /\ Exists(files_to_add[j][1])
              /\ Basename(files_to_add[i][1]) = Basename(files_to_add[j][1])
              /\ ~Contains(prev, Basename(files_to_add[i][1])) )
            => Cardinality({ n \in 1..Len(added) :
                               added[n].filename = Basename(files_to_add[i][1]) }) = 1

(* C4: for every entry reported as added, the written manifest holds its   *)
(* file reference record, its build file record (whose fileRef is that     *)
(* record's identity) and its build-phase entry (whose token is the build  *)
(* file's identity); no build file record is left with a dangling fileRef. *)
C4_FragmentsComplete ==
    Registering =>
        \A n \in 1..Len(added) :
            LET a == added[n]
            IN  /\ Contains(content, FileRef(a.file_uuid, a.filename))
                /\ Contains(content, BuildFile(a.build_uuid, a.filename, a.file_uuid))
                /\ Contains(content, SourceLine(a.build_uuid, a.filename))

\* the children list of the named group in text: from its opening to its closing
GroupList(text, group_name) ==
    LET open_pos == Find(text, GroupOpen(group_name), 0)
        close_pos == Find(text, end_bracket, open_pos)
    IN  IF open_pos = -1 THEN <<>>
        ELSE IF close_pos = -1 THEN SliceFrom(text, open_pos)
        ELSE SubSeq(text, open_pos + 1, close_pos)

C6_FramePreserved ==
    Registering => Strip(content, StagedFragments) = prev

\* a write into a manifest that holds a marker twice and no closing of the
\* located files list
C6_Witness ==
    /\ Registering /\ wrote /\ calls = 1
    /\ Count(prev, build_file_marker) = 2
    /\ Find(prev, files_open, Find(prev, sources_marker, 0)) # -1
    /\ Find(prev, end_bracket, Find(prev, files_open, Find(prev, sources_marker, 0))) = -1
    /\ content # prev

(* C7: after an invocation that registers an entry on a manifest holding   *)
(* each end marker exactly once, each marker still occurs exactly once and *)
(* the new fragments of its section sit immediately before it, in input    *)
(* order.                                                                  *)
C7_MarkersPreserved ==
    ( /\ Registering /\ added # <<>>
      /\ Count(prev, file_ref_marker) = 1
      /\ Count(prev, build_file_marker) = 1 )
    => /\ Count(content, file_ref_marker) = 1
       /\ Count(content, build_file_marker) = 1
       /\ Contains(content, Block(file_refs_section) \o file_ref_marker)
       /\ Contains(content, Block(build_files_section) \o build_file_marker)

(* C8: the 2N identities minted by one invocation are pairwise distinct    *)
(* and distinct from every identity already in the manifest.               *)
C8_IdentitiesUnique ==
    Registering =>
        LET ids == Minted(added)
        IN  /\ \A i, j \in 1..Len(ids) : i # j => ids[i] # ids[j]
            /\ \A i \in 1..Len(ids) : ~Contains(prev, <<ids[i]>>)

(* C9: the build-phase entries are spliced inside the files list of the    *)
(* sources build phase, immediately before its closing, also when          *)
(* "/* Sources */," occurs in a target's build-phase listing or no closing *)
(* follows the located "files = (".                                        *)
C9_SourcesListTargeted ==
    ( /\ Registering /\ added # <<>>
      /\ Contains(prev, sources_marker)
      /\ Count(prev, SourcesHeader \o files_open) = 1 )
    => LET block == Block(sources_build_phase)
           list_pos == Find(content, SourcesHeader \o files_open, 0)
           block_pos == Find(content, block, 0)
           was_closed == Find(prev, end_bracket,
                              Find(prev, SourcesHeader \o files_open, 0)) # -1
       IN  /\ Count(content, block) = 1
           /\ block_pos > list_pos
           /\ Find(content, end_bracket, list_pos) \in {-1} \cup (block_pos..Len(content))
           /\ was_closed => MatchAt(content, end_bracket, block_pos + Len(block))

(* C10: in the print-only generator, the group entry printed for a file    *)
(* carries the identity of the file reference record generated for that    *)
(* file, also when one file name is a substring of another.                *)
C10_GroupUuidIsFileUuid ==
    (prog = "main" /\ calls >= 1) =>
        \A i \in 1..Len(group_lines) :
            FirstWord(group_lines[i]) = FirstWord(file_refs[i])

====
